---- MODULE Spec2Model ----
(***************************************************************************)
(* Live-quote streaming layer of the financial-datasets backend: the two   *)
(* websocket endpoints (/crypto_ws, /stock_ws), the connection handler and *)
(* its two asyncio tasks (consumer_handler = intake, producer_handler =    *)
(* scheduler), and the two module-level dictionaries active_connections    *)
(* and subscribed_tickers.                                                  *)
(*                                                                         *)
(* A string is a sequence of one-character strings.  A Python set is kept  *)
(* as a duplicate-free sequence: its elements in the iteration order the   *)
(* interpreter happens to give the set object (hash order, not insertion   *)
(* order); the tracked set proper is the range of that sequence.           *)
(***************************************************************************)
EXTENDS Integers, Sequences, FiniteSets, TLC

\* ------------------------------------------------------------------------
\* Bounds of the model
\* ------------------------------------------------------------------------
\* longest ticker string of an inbound message (intake specification)
MaxStrLen == 3
\* longest ticker array of an inbound message (intake specification)
MaxListLen == 2
\* most copies of one message the client sends back to back
MaxCopies == 2

\* connection ids handed out by id(websocket)
ConnIds == {"c1", "c2"}

\* the one connection of the single-session specifications
SoloIds == {"c1"}

\* characters of the intake specification's messages
IntakeAlphabet == {"A", "B", " ", ","}

Range(s) == {s[i] : i \in 1..Len(s)}

\* all strings over alphabet of length at most n
StringsUpTo(alphabet, n) == UNION {[1..k -> alphabet] : k \in 0..n}

\* all orders in which a set can be iterated
Orders(S) == {o \in [1..Cardinality(S) -> S] : Range(o) = S}

\* ------------------------------------------------------------------------
\* Python string operations used by consumer_handler
\* ------------------------------------------------------------------------
\* str.strip() strips whitespace
IsSpace(ch) == ch = " "

RECURSIVE LStrip(_)
LStrip(s) == IF s # <<>> /\ IsSpace(Head(s)) THEN LStrip(Tail(s)) ELSE s

RECURSIVE RStrip(_)
RStrip(s) ==
    IF s # <<>> /\ IsSpace(s[Len(s)]) THEN RStrip(SubSeq(s, 1, Len(s) - 1)) ELSE s

StripWrong(s) == s
Strip(s) == RStrip(LStrip(s))

\* str.split(","): the pieces between commas, empty pieces included
RECURSIVE SplitFrom(_, _)
SplitFrom(s, cur) ==
    IF s = <<>> THEN <<cur>>
    ELSE IF Head(s) = "," THEN <<cur>> \o SplitFrom(Tail(s), <<>>)
    ELSE SplitFrom(Tail(s), Append(cur, Head(s)))

SplitWhole(s) == <<s>>
SplitComma(s) == SplitFrom(s, <<>>)

\* [t.strip() for t in pieces if t.strip()]
RECURSIVE StripNonEmpty(_)
StripNonEmpty(pieces) ==
    IF pieces = <<>> THEN <<>>
    ELSE IF Strip(Head(pieces)) # <<>>
         THEN <<Strip(Head(pieces))>> \o StripNonEmpty(Tail(pieces))
         ELSE StripNonEmpty(Tail(pieces))

\* ------------------------------------------------------------------------
\* Inbound messages: the JSON value the channel delivers
\* ------------------------------------------------------------------------
\* kind "str":   {"params": {"ticker": "<str>"}}
\* kind "list":  {"params": {"ticker": [<elem>, ...]}}
\* kind "absent": no params or no ticker key;  "null": ticker is null
\* kind "number", "object", "true": ticker is a non-zero number, a non-empty
\*      object, true
\* kind "badparams": params is not an object;  "nonobject": the message is not
\*      an object;  "undecodable": the text frame is not JSON
StrElem(s) == [isStr |-> TRUE, chars |-> s]
NonStrElem == [isStr |-> FALSE, chars |-> <<>>]

StrMsg(s) == [kind |-> "str", str |-> s, list |-> <<>>]
ListMsg(l) == [kind |-> "list", str |-> <<>>, list |-> l]
OtherMsg(k) == [kind |-> k, str |-> <<>>, list |-> <<>>]

OtherKinds ==
    {"absent", "null", "number", "object", "true", "badparams", "nonobject",
     "undecodable"}

\* the raising kinds if the `else: continue` of lines 1037-1038 were missing and
\* a ticker that is neither a string nor a list reached t.strip()
RaisingKindsNoElse ==
    {"badparams", "nonobject", "undecodable", "number", "object", "true"}
\* kinds on which data.get("params", {}).get("ticker") or receive_json raises
RaisingKinds == {"badparams", "nonobject", "undecodable"}

ElemsOf(l) == [i \in 1..Len(l) |-> l[i].chars]

\* the value of `tickers` is truthy
Truthy(m) ==
    CASE m.kind = "str" -> m.str # <<>>
      [] m.kind = "list" -> m.list # <<>>
      [] m.kind \in {"absent", "null"} -> FALSE
      [] OTHER -> TRUE

\* the list comprehension over a ticker array raises AttributeError
ListRaises(m) == m.kind = "list" /\ \E i \in 1..Len(m.list) : ~m.list[i].isStr

\* the list `tickers` after the isinstance branches (lines 1033-1036)
ParsedTickers(m) ==
    IF m.kind = "str" THEN StripNonEmpty(SplitComma(m.str))
    ELSE StripNonEmpty(ElemsOf(m.list))

\* set(tickers): the symbols the session tracks after a valid message
MergedTrackedSet(old, tickers) == Range(old) \cup Range(tickers)
ToggledTrackedSet(old, tickers) ==
    (Range(old) \ Range(tickers)) \cup (Range(tickers) \ Range(old))
NewTrackedSet(old, tickers) == Range(tickers)

\* ------------------------------------------------------------------------
\* Message universes
\* ------------------------------------------------------------------------
AAPL == <<"A", "A", "P", "L">>
MSFT == <<"M", "S", "F", "T">>
SymA == <<"A">>
SymB == <<"B">>
SymC == <<"C">>

\* {"params": {"ticker": "AAPL,MSFT"}}
StockScenarioMsg == StrMsg(AAPL \o <<",">> \o MSFT)
\* {"params": {"ticker": ["A", "B", "C"]}}
ThreeSymbolMsg == ListMsg(<<StrElem(SymA), StrElem(SymB), StrElem(SymC)>>)

\* messages of the full specification
ScenarioMsgs == {StockScenarioMsg, ThreeSymbolMsg, OtherMsg("nonobject")}

\* entries of the ticker arrays of the intake specification: "", " ", "A", "B",
\* " A", "A ", " B ", "A,B" and a non-string
ElemUniverse ==
    {StrElem(s) : s \in {<<>>, <<" ">>, <<"A">>, <<"B">>, <<" ", "A">>, <<"A", " ">>,
                         <<" ", "B", " ">>, <<"A", ",", "B">>}}
    \cup {NonStrElem}

\* messages of the intake specification
IntakeMsgs ==
    {StrMsg(s) : s \in StringsUpTo(IntakeAlphabet, MaxStrLen)}
    \cup {ListMsg(l) : l \in UNION {[1..k -> ElemUniverse] : k \in 0..MaxListLen}}
    \cup {OtherMsg(k) : k \in OtherKinds}

\* upstream outcomes of one requests.get + response handling
\*   ok        200, snapshot non-empty with a price
\*   status    status code other than 200
\*   empty     200, snapshot missing or empty
\*   noprice   200, snapshot without price
\*   exception requests.get raises (transport error)
\*   badjson   response.json() raises
Outcomes == {"ok", "status", "empty", "noprice", "exception", "badjson"}
RaisingOutcomes == {"exception", "badjson"}
SkippingOutcomes == {"empty", "noprice"}

\* the branch an outcome takes through lines 1065-1105, as the cycle log keeps it
\*   ok       reaches send_json
\*   status   else branch at line 1093
\*   skipped  continue at line 1073 or 1078
\*   raised   except Exception at line 1103
PathOf(outcome) ==
    CASE outcome \in RaisingOutcomes -> "raised"
      [] outcome \in SkippingOutcomes -> "skipped"
      [] OTHER -> outcome

\* results of websocket.send_json
\*   sent        the frame went out
\*   disconnect  send_json raises WebSocketDisconnect
\*   error       send_json raises another exception (RuntimeError: the channel
\*               is already closed)
SendResults == {"sent", "disconnect", "error"}

\* the cycle log's entry for a call: the exception of send_json if it raised,
\* else the branch of the upstream outcome
CallPath(outcome, sent) ==
    IF outcome = "ok" /\ sent # "sent" THEN sent ELSE PathOf(outcome)

DataTypes == {"crypto", "stock"}

\* ------------------------------------------------------------------------
\* State
\* ------------------------------------------------------------------------
VARIABLES
    active_connections,  \* keys of the dict active_connections
    subscribed_tickers,  \* the dict subscribed_tickers: id -> set (in iteration order)
    data_type,           \* data_type argument of the session's websocket_handler
    ws_path,             \* the route the connection was opened on
    client_state,        \* websocket.client_state
    peerGone,            \* the peer has closed; its disconnect is still unread
    inbox,               \* inbound messages in flight on the channel
    consumerPc,          \* where consumer_handler is
    producerPc,          \* where producer_handler is
    handlerPc,           \* where websocket_handler is
    current_tickers,     \* producer_handler's local current_tickers
    idx,                 \* position of the for loop in current_tickers
    fetched,             \* upstream calls of the current poll cycle, with the branch taken
    pushed,              \* tickers whose quote was sent in the current poll cycle
    running,             \* the task that holds the event loop between two awaits
    expected,            \* symbols of the last valid subscribe message processed
    handled,             \* what intake has done with the latest inbound message
    cycleFresh           \* no registry write since the current cycle's snapshot

vars ==
    <<active_connections, subscribed_tickers, data_type, ws_path, client_state, peerGone,
      inbox, consumerPc, producerPc, handlerPc, current_tickers, idx, fetched,
      pushed, running, expected, handled, cycleFresh>>

ghostVars == <<expected, handled, cycleFresh>>
registryVars == <<active_connections, subscribed_tickers, data_type, ws_path>>
producerVars == <<producerPc, current_tickers, idx, fetched, pushed, running>>

NoMsg == [msg |-> OtherMsg("none"), pending |-> 0, seen |-> 0]

NoTask == "none"

NotHandled == [class |-> "none", repeat |-> FALSE, dropped |-> FALSE]

\* {}
EmptyDict == [k \in {} |-> <<>>]

Init ==
    /\ active_connections = {}
    /\ subscribed_tickers = EmptyDict
    /\ data_type = [c \in ConnIds |-> "none"]
    /\ ws_path = [c \in ConnIds |-> "none"]
    /\ client_state = [c \in ConnIds |-> "CONNECTING"]
    /\ peerGone = [c \in ConnIds |-> FALSE]
    /\ inbox = [c \in ConnIds |-> NoMsg]
    /\ consumerPc = [c \in ConnIds |-> "none"]
    /\ producerPc = [c \in ConnIds |-> "none"]
    /\ handlerPc = [c \in ConnIds |-> "none"]
    /\ current_tickers = [c \in ConnIds |-> <<>>]
    /\ idx = [c \in ConnIds |-> 0]
    /\ fetched = [c \in ConnIds |-> <<>>]
    /\ pushed = [c \in ConnIds |-> <<>>]
    /\ running = NoTask
    /\ expected = [c \in ConnIds |-> {}]
    /\ handled = [c \in ConnIds |-> NotHandled]
    /\ cycleFresh = [c \in ConnIds |-> FALSE]

\* one object is shared: the value is stored under every key
DictSetAll(d, key, value) == [k \in DOMAIN d \cup {key} |-> value]
\* dict[key] = value
DictSet(d, key, value) ==
    [k \in DOMAIN d \cup {key} |-> IF k = key THEN value ELSE d[k]]

\* the inbox after the consumer has taken one message from it
Taken(box) ==
    IF box.pending > 1
    THEN [msg |-> box.msg, pending |-> box.pending - 1, seen |-> 1]
    ELSE NoMsg

\* ------------------------------------------------------------------------
\* Claim-side vocabulary: what a message asks for, stated without the code's
\* parsing steps
\* ------------------------------------------------------------------------
\* s without its leading and trailing whitespace
TrimOf(s) ==
    LET keep == {i \in 1..Len(s) : s[i] # " "}
    IN  IF keep = {} THEN <<>>
        ELSE LET lo == CHOOSE i \in keep : \A j \in keep : i <= j
                 hi == CHOOSE i \in keep : \A j \in keep : j <= i
             IN  SubSeq(s, lo, hi)

\* the maximal comma-free stretches of s
PiecesOf(s) ==
    {SubSeq(s, i, j) : <<i, j>> \in
        {ij \in (1..Len(s) + 1) \X (0..Len(s)) :
            /\ ij[1] <= ij[2] + 1
            /\ \A k \in ij[1]..ij[2] : s[k] # ","
            /\ ij[1] = 1 \/ s[ij[1] - 1] = ","
            /\ ij[2] = Len(s) \/ s[ij[2] + 1] = ","}}

\* a message of the documented shape: ticker is a string or an array of strings
WellFormed(m) ==
    \/ m.kind = "str"
    \/ m.kind = "list" /\ \A i \in 1..Len(m.list) : m.list[i].isStr

\* the trimmed, non-empty symbols a well-formed message names
SymbolsOf(m) ==
    IF m.kind = "str" THEN {TrimOf(p) : p \in PiecesOf(m.str)} \ {<<>>}
    ELSE {TrimOf(m.list[i].chars) : i \in 1..Len(m.list)} \ {<<>>}

\* a valid subscribe message: well-formed, with at least one non-empty symbol
ValidSubscribe(m) == WellFormed(m) /\ SymbolsOf(m) # {}

\* valid:     a valid subscribe message
\* blank:     well-formed, ticker not empty, but only empty or whitespace symbols
\* malformed: not an object, params not an object, not JSON, or a ticker array
\*            with a non-string entry
\* empty:     no ticker, ticker "", [] or null, or neither a string nor an array
MsgClass(m) ==
    CASE ValidSubscribe(m) -> "valid"
      [] WellFormed(m) /\ ~ValidSubscribe(m) /\ (m.str # <<>> \/ m.list # <<>>) -> "blank"
      [] m.kind \in {"badparams", "nonobject", "undecodable"} -> "malformed"
      [] m.kind = "list" /\ ~WellFormed(m) -> "malformed"
      [] OTHER -> "empty"

\* ------------------------------------------------------------------------
\* Endpoints: accept, register, start the two tasks
\* ------------------------------------------------------------------------
\* @app.websocket("/crypto_ws") and @app.websocket("/stock_ws")
Route(dt) == IF dt = "crypto" THEN "/crypto_ws" ELSE "/stock_ws"

\* the data_type websocket_handler runs with: the stock endpoint passes "stock"
\* (line 1014); the crypto endpoint passes nothing (line 566) and gets the
\* default of the definition in force, the one at line 1024, which replaces
\* the definition at line 574
DataTypeArg(dt) == IF dt = "stock" THEN "stock" ELSE "crypto"

\* the endpoint leaves the creation of the entry to the first subscribe
NoEntry(d, c) == d
\* subscribed_tickers[connection_id] = set()
EmptyEntry(d, c) == DictSet(d, c, <<>>)

\* id() hands out a number that an object alive has
AnyId(c) == TRUE
\* connection_id = str(id(websocket)): the id of the new websocket object is
\* that of no other object alive, and every websocket stored in
\* active_connections is kept alive by that reference
FreshId(c) == c \notin active_connections

\* accept() returns; from there to asyncio.wait inside websocket_handler there
\* is no await: the two dictionary writes and the creation of both tasks are
\* one stretch, and neither task runs before it is over
Accept(c, dt) ==
    /\ running = NoTask
    /\ FreshId(c)
    /\ active_connections' = active_connections \cup {c}
    /\ subscribed_tickers' = EmptyEntry(subscribed_tickers, c)
    /\ data_type' = [data_type EXCEPT ![c] = DataTypeArg(dt)]
    /\ ws_path' = [ws_path EXCEPT ![c] = Route(dt)]
    /\ client_state' = [client_state EXCEPT ![c] = "CONNECTED"]
    /\ consumerPc' = [consumerPc EXCEPT ![c] = "recv"]
    /\ producerPc' = [producerPc EXCEPT ![c] = "start"]
    /\ handlerPc' = [handlerPc EXCEPT ![c] = "wait"]
    \* a new websocket object, new tasks with new locals
    /\ peerGone' = [peerGone EXCEPT ![c] = FALSE]
    /\ inbox' = [inbox EXCEPT ![c] = NoMsg]
    /\ current_tickers' = [current_tickers EXCEPT ![c] = <<>>]
    /\ idx' = [idx EXCEPT ![c] = 0]
    /\ fetched' = [fetched EXCEPT ![c] = <<>>]
    /\ pushed' = [pushed EXCEPT ![c] = <<>>]
    /\ expected' = [expected EXCEPT ![c] = {}]
    /\ handled' = [handled EXCEPT ![c] = NotHandled]
    /\ cycleFresh' = [cycleFresh EXCEPT ![c] = FALSE]
    /\ UNCHANGED running

\* ------------------------------------------------------------------------
\* The peer
\* ------------------------------------------------------------------------
\* the client sends one of msgs, once or up to copies times back to back
ClientSend(c, msgs, copies) ==
    /\ running = NoTask
    /\ client_state[c] = "CONNECTED"
    /\ ~peerGone[c]
    /\ inbox[c] = NoMsg
    /\ \E m \in msgs, k \in 1..copies :
          inbox' = [inbox EXCEPT ![c] = [msg |-> m, pending |-> k, seen |-> 0]]
    /\ handled' = [handled EXCEPT ![c] = NotHandled]
    /\ UNCHANGED <<registryVars, client_state, peerGone, consumerPc, handlerPc,
                   producerVars, expected, cycleFresh>>

\* the client closes the connection
PeerDisconnect(c) ==
    /\ running = NoTask
    /\ client_state[c] = "CONNECTED"
    /\ ~peerGone[c]
    /\ peerGone' = [peerGone EXCEPT ![c] = TRUE]
    /\ UNCHANGED <<registryVars, client_state, inbox, consumerPc, handlerPc,
                   producerVars, ghostVars>>

\* ------------------------------------------------------------------------
\* consumer_handler
\* ------------------------------------------------------------------------
\* if tickers:  (line 1040) with every parsed list taken as an update
ShouldUpdateAlways(tickers) == TRUE
\* if tickers:  (line 1040)
ShouldUpdate(tickers) == tickers # <<>>

\* one pass of the async for body on the next inbound message
ConsumerStep(c) ==
    /\ running = NoTask
    /\ consumerPc[c] = "recv"
    /\ inbox[c] # NoMsg
    /\ LET m == inbox[c].msg
           tickers == ParsedTickers(m)
           old == IF c \in DOMAIN subscribed_tickers THEN subscribed_tickers[c] ELSE <<>>
       IN  /\ inbox' = [inbox EXCEPT ![c] = Taken(inbox[c])]
           /\ IF m.kind \in RaisingKinds \/ (Truthy(m) /\ ListRaises(m))
              THEN \* except Exception: return
                   /\ consumerPc' = [consumerPc EXCEPT ![c] = "done"]
                   /\ UNCHANGED <<subscribed_tickers, cycleFresh>>
              ELSE /\ UNCHANGED consumerPc
                   /\ IF Truthy(m) /\ m.kind \in {"str", "list"} /\ ShouldUpdate(tickers)
                      THEN /\ \E o \in Orders(NewTrackedSet(old, tickers)) :
                                 subscribed_tickers' = DictSet(subscribed_tickers, c, o)
                           /\ cycleFresh' = [cycleFresh EXCEPT ![c] = FALSE]
                      ELSE UNCHANGED <<subscribed_tickers, cycleFresh>>
           /\ expected' = [expected EXCEPT ![c] =
                             IF ValidSubscribe(m) THEN SymbolsOf(m) ELSE @]
           /\ handled' = [handled EXCEPT ![c] =
                            [class |-> MsgClass(m),
                             repeat |-> inbox[c].seen = 1,
                             dropped |-> ValidSubscribe(m)
                                         /\ expected[c] \ SymbolsOf(m) # {}]]
    /\ UNCHANGED <<active_connections, data_type, ws_path, client_state, peerGone,
                   handlerPc, producerVars>>

\* receive() delivers the disconnect: iter_json ends, the consumer returns
ConsumerDisconnect(c) ==
    /\ running = NoTask
    /\ consumerPc[c] = "recv"
    /\ peerGone[c]
    /\ inbox[c] = NoMsg
    /\ client_state' = [client_state EXCEPT ![c] = "DISCONNECTED"]
    /\ consumerPc' = [consumerPc EXCEPT ![c] = "done"]
    /\ UNCHANGED <<registryVars, peerGone, inbox, handlerPc, producerVars,
                   ghostVars>>

\* ------------------------------------------------------------------------
\* websocket_handler: asyncio.wait(FIRST_COMPLETED), then cancel what is pending
\* ------------------------------------------------------------------------
\* task.cancel() has no effect on the pending task
CancelIgnored(pc) == pc
\* task.cancel() on the pending task: CancelledError is raised at the await it
\* is suspended in; it is a BaseException, so neither except clause of the task
\* catches it and the task ends there
Cancelled(pc) == IF pc = "done" THEN "done" ELSE "cancelled"

\* every task of the process that has not ended is cancelled
CancelAllTasks(pcs, c) ==
    [d \in DOMAIN pcs |-> IF pcs[d] = "none" THEN "none" ELSE Cancelled(pcs[d])]
\* for task in pending: task.cancel()  -- pending holds tasks of this call's
\* own consumer_task / producer_task pair only
CancelPending(pcs, c) == [pcs EXCEPT ![c] = Cancelled(@)]

\* the exception of the task that ended first reaches the endpoint
HandlerReraises(c) ==
    IF client_state[c] = "DISCONNECTED" THEN "WebSocketDisconnect"
    ELSE IF consumerPc[c] = "done" THEN "Exception"
    ELSE "return"
\* a task that ended on a disconnect makes the handler fail
HandlerFailsOnDisconnect(c) ==
    IF client_state[c] = "DISCONNECTED" \/ producerPc[c] = "done"
    THEN "Exception" ELSE "return"
\* how `await websocket_handler(...)` ends for the endpoint.  Both tasks catch
\* WebSocketDisconnect and Exception themselves and return; asyncio.wait hands
\* back the (done, pending) sets and never calls result() on a task; the for
\* loop only cancels.  Nothing is raised to the endpoint.
HandlerOutcome(c) == "return"

\* del d[key]
DictDel(d, key) == [k \in DOMAIN d \ {key} |-> d[k]]

\* asyncio.wait resumes, the pending task is cancelled, websocket_handler ends
\* and the endpoint leaves its try statement (lines 1013-1022), all without an
\* await in between.  handlerPc keeps the way the endpoint left:
\*   returned      the try body completed
\*   disconnected  except WebSocketDisconnect: both del statements
\*   failed        except Exception: close(code=1011), then raise
HandlerResume(c) ==
    /\ running = NoTask
    /\ handlerPc[c] = "wait"
    /\ consumerPc[c] = "done" \/ producerPc[c] = "done"
    /\ consumerPc' = CancelPending(consumerPc, c)
    /\ producerPc' = CancelPending(producerPc, c)
    /\ LET outcome == HandlerOutcome(c)
       IN  CASE outcome = "WebSocketDisconnect" ->
                    /\ active_connections' = active_connections \ {c}
                    /\ subscribed_tickers' = DictDel(subscribed_tickers, c)
                    /\ handlerPc' = [handlerPc EXCEPT ![c] = "disconnected"]
             [] outcome = "Exception" ->
                    /\ handlerPc' = [handlerPc EXCEPT ![c] = "failed"]
                    /\ UNCHANGED <<active_connections, subscribed_tickers>>
             [] OTHER ->
                    /\ handlerPc' = [handlerPc EXCEPT ![c] = "returned"]
                    /\ UNCHANGED <<active_connections, subscribed_tickers>>
    /\ UNCHANGED <<data_type, ws_path, client_state, peerGone, inbox,
                   current_tickers, idx, fetched, pushed, running, ghostVars>>

\* ------------------------------------------------------------------------
\* producer_handler
\* ------------------------------------------------------------------------
\* the session fetches from the other asset class's endpoint
EndpointSwapped(dt) == IF dt = "crypto" THEN "prices/snapshot" ELSE "crypto/prices/snapshot"
\* endpoint = "crypto/prices/snapshot" if data_type == "crypto" else "prices/snapshot"
Endpoint(dt) == IF dt = "crypto" THEN "crypto/prices/snapshot" ELSE "prices/snapshot"

\* a default watch list stands in for an empty entry
SnapshotWithDefault(entry) == IF entry = <<>> THEN <<SymA>> ELSE entry
\* current_tickers = list(subscribed_tickers[connection_id])
Snapshot(entry) == entry

\* the list captured by the first non-empty read serves every later cycle
FirstList(c) ==
    IF current_tickers[c] # <<>> THEN current_tickers[c]
    ELSE Snapshot(subscribed_tickers[c])
\* line 1056 is inside the while loop: each cycle reads the entry anew
CycleList(c) == Snapshot(subscribed_tickers[c])

\* the task is suspended in one of its asyncio.sleep calls, or has not run yet
AtLoopHead(pc) == pc \in {"start", "sleep_idle", "sleep_cycle", "sleep_err"}

\* the while test, the snapshot and the idle check (lines 1054-1059); with a
\* non-empty snapshot the task goes on to the first fetch without yielding
ProducerLoop(c) ==
    /\ running = NoTask
    /\ AtLoopHead(producerPc[c])
    /\ IF client_state[c] = "DISCONNECTED"
       THEN /\ producerPc' = [producerPc EXCEPT ![c] = "done"]
            /\ UNCHANGED <<current_tickers, idx, fetched, pushed, running, cycleFresh>>
       ELSE IF c \notin DOMAIN subscribed_tickers
       THEN \* KeyError, caught at line 1103
            /\ producerPc' = [producerPc EXCEPT ![c] = "sleep_err"]
            /\ UNCHANGED <<current_tickers, idx, fetched, pushed, running, cycleFresh>>
       ELSE LET snap == CycleList(c)
            IN  /\ current_tickers' = [current_tickers EXCEPT ![c] = snap]
                /\ cycleFresh' = [cycleFresh EXCEPT ![c] = TRUE]
                /\ fetched' = [fetched EXCEPT ![c] = <<>>]
                /\ pushed' = [pushed EXCEPT ![c] = <<>>]
                /\ IF snap = <<>>
                   THEN /\ producerPc' = [producerPc EXCEPT ![c] = "sleep_idle"]
                        /\ idx' = [idx EXCEPT ![c] = 0]
                        /\ UNCHANGED running
                   ELSE /\ producerPc' = [producerPc EXCEPT ![c] = "fetch"]
                        /\ idx' = [idx EXCEPT ![c] = 1]
                        /\ running' = c
    /\ UNCHANGED <<registryVars, client_state, peerGone, inbox, consumerPc,
                   handlerPc, expected, handled>>

\* where the for loop goes after an iteration that did not raise: the next
\* ticker, or the end-of-cycle sleep (line 1098)
AbortCycle(c, yields) ==
    /\ producerPc' = [producerPc EXCEPT ![c] = "sleep_cycle"]
    /\ running' = NoTask
    /\ UNCHANGED idx
Advance(c, yields) ==
    IF yields
    THEN \* await asyncio.sleep(1) at line 1096
         /\ producerPc' = [producerPc EXCEPT ![c] = "sleep_ticker"]
         /\ running' = NoTask
         /\ UNCHANGED idx
    ELSE \* continue at line 1073 or 1078: no await before the next iteration
         IF idx[c] < Len(current_tickers[c])
         THEN /\ idx' = [idx EXCEPT ![c] = idx[c] + 1]
              /\ UNCHANGED <<producerPc, running>>
         ELSE /\ producerPc' = [producerPc EXCEPT ![c] = "sleep_cycle"]
              /\ running' = NoTask
              /\ UNCHANGED idx

RaiseTerminates(c, disconnect) ==
    /\ producerPc' = [producerPc EXCEPT ![c] = "done"]
    /\ running' = NoTask
    /\ UNCHANGED idx
\* an exception inside the try: line 1100 returns, line 1103 sleeps and loops
Raise(c, disconnect) ==
    /\ producerPc' = [producerPc EXCEPT ![c] = IF disconnect THEN "done" ELSE "sleep_err"]
    /\ running' = NoTask
    /\ UNCHANGED idx

\* a non-200 response is retried at once for the same symbol
StatusRetries(c) == UNCHANGED <<producerPc, running, idx>>
\* the handling of a non-200 response drops the rest of the cycle
StatusAborts(c) == AbortCycle(c, TRUE)
\* else branch at line 1093: log, then the per-ticker sleep
StatusSkips(c) == Advance(c, TRUE)

\* an empty or price-less quote drops the rest of the cycle
QuoteAborts(c) == AbortCycle(c, FALSE)
\* the crypto session runs the loop body of the definition at line 574, which
\* has no check on the snapshot and pauses after every symbol
QuoteSkipsStockOnly(c) == Advance(c, data_type[c] = "crypto")
\* continue at line 1073 (empty snapshot) or 1078 (no price)
QuoteSkips(c) == Advance(c, FALSE)

\* the for loop runs over the registry entry as it is now
LiveTicker(c) ==
    IF c \in DOMAIN subscribed_tickers /\ idx[c] <= Len(subscribed_tickers[c])
    THEN subscribed_tickers[c][idx[c]]
    ELSE current_tickers[c][idx[c]]
\* for ticker in current_tickers: the loop runs over the list made at line 1056
CycleTicker(c) == current_tickers[c][idx[c]]

\* a row is also pushed for a symbol whose call came back with a non-200 status
PushLogWithErrorRows(log, ticker, outcome, sent) ==
    IF sent = "sent" /\ outcome \in {"ok", "status"} THEN Append(log, ticker) ELSE log
\* the quote pushed before stands in for an empty or price-less one
PushLogCached(log, ticker, outcome, sent) ==
    IF sent = "sent" /\ outcome \in {"ok"} \cup SkippingOutcomes
    THEN Append(log, ticker) ELSE log
\* the pushes of the cycle after one iteration: send_json at line 1092 is the
\* only send of the loop, reached with a 200 response whose snapshot is
\* non-empty and has a price; it sends the snapshot of that response
PushLog(log, ticker, outcome, sent) ==
    IF outcome = "ok" /\ sent = "sent" THEN Append(log, ticker) ELSE log

\* one iteration of the for loop: requests.get, the checks on the response and
\* send_json (lines 1063-1096)
ProducerFetch(c) ==
    /\ running = c
    /\ producerPc[c] = "fetch"
    /\ \E outcome \in Outcomes, sent \in SendResults :
          LET ticker == CycleTicker(c)
              call == [endpoint |-> Endpoint(data_type[c]), ticker |-> ticker,
                       path |-> CallPath(outcome, sent)]
          IN  /\ sent = "sent" \/ (outcome = "ok" /\ (peerGone[c] \/ client_state[c] = "DISCONNECTED"))
              /\ fetched' = [fetched EXCEPT ![c] = Append(@, call)]
              /\ pushed' = [pushed EXCEPT ![c] = PushLog(@, ticker, outcome, sent)]
              /\ CASE outcome = "ok" /\ sent = "sent" -> Advance(c, TRUE)
                   [] outcome = "ok" /\ sent # "sent" -> Raise(c, sent = "disconnect")
                   [] outcome = "status" -> StatusSkips(c)
                   [] outcome \in SkippingOutcomes -> QuoteSkips(c)
                   [] outcome \in RaisingOutcomes -> Raise(c, FALSE)
    /\ UNCHANGED <<registryVars, client_state, peerGone, inbox, consumerPc,
                   handlerPc, current_tickers, ghostVars>>

\* the per-ticker sleep ends: next ticker, or the end-of-cycle sleep
ProducerResume(c) ==
    /\ running = NoTask
    /\ producerPc[c] = "sleep_ticker"
    /\ IF idx[c] < Len(current_tickers[c])
       THEN /\ idx' = [idx EXCEPT ![c] = idx[c] + 1]
            /\ producerPc' = [producerPc EXCEPT ![c] = "fetch"]
            /\ running' = c
       ELSE /\ producerPc' = [producerPc EXCEPT ![c] = "sleep_cycle"]
            /\ UNCHANGED <<idx, running>>
    /\ UNCHANGED <<registryVars, client_state, peerGone, inbox, consumerPc,
                   handlerPc, current_tickers, fetched, pushed, ghostVars>>

\* ------------------------------------------------------------------------
\* Intake specification: the stock endpoint, the peer and consumer_handler, with
\* every message over a small alphabet.  producer_handler is left to the full
\* specification: it writes neither subscribed_tickers nor the inbound channel.
\* ------------------------------------------------------------------------
NextIntake ==
    \E c \in SoloIds :
        \/ Accept(c, "stock")
        \/ ClientSend(c, IntakeMsgs, MaxCopies)
        \/ PeerDisconnect(c)
        \/ ConsumerStep(c)
        \/ ConsumerDisconnect(c)
        \/ HandlerResume(c)

SpecIntake == Init /\ [][NextIntake]_vars

\* ------------------------------------------------------------------------
\* Full specification: both endpoints, both tasks, the scenario messages, each
\* sent once at a time
\* ------------------------------------------------------------------------
Next ==
    \E c \in SoloIds :
        \/ \E dt \in DataTypes : Accept(c, dt)
        \/ ClientSend(c, ScenarioMsgs, 1)
        \/ PeerDisconnect(c)
        \/ ConsumerStep(c)
        \/ ConsumerDisconnect(c)
        \/ ProducerLoop(c)
        \/ ProducerFetch(c)
        \/ ProducerResume(c)
        \/ HandlerResume(c)

Spec == Init /\ [][Next]_vars

\* ------------------------------------------------------------------------
\* Full specification under fair scheduling.  The event loop runs its ready
\* queue in order, so a handler that asyncio.wait has made ready runs after
\* at most one stretch of every other ready task, however often the scheduler
\* takes the loop in between (strong fairness of HandlerResume); and every
\* upstream call is taken to return (weak fairness of ProducerFetch:
\* requests.get is called without a timeout).
\* ------------------------------------------------------------------------
FairSpec ==
    /\ Spec
    /\ \A c \in SoloIds : SF_vars(HandlerResume(c)) /\ WF_vars(ProducerFetch(c))

\* ------------------------------------------------------------------------
\* Two-session specification: a crypto connection and a stock connection open,
\* run and end side by side in one process, each subscribing to A or to B
\* ------------------------------------------------------------------------
\* {"params": {"ticker": "A"}} and {"params": {"ticker": "B"}}
PairMsgs == {StrMsg(SymA), StrMsg(SymB)}

\* the endpoint each connection of the pair is opened on
PairType(c) == IF c \in SoloIds THEN "crypto" ELSE "stock"

NextPair ==
    \E c \in ConnIds :
        \/ Accept(c, PairType(c))
        \/ ClientSend(c, PairMsgs, 1)
        \/ PeerDisconnect(c)
        \/ ConsumerStep(c)
        \/ ConsumerDisconnect(c)
        \/ ProducerLoop(c)
        \/ ProducerFetch(c)
        \/ ProducerResume(c)
        \/ HandlerResume(c)

SpecPair == Init /\ [][NextPair]_vars

\* ------------------------------------------------------------------------
\* Padded-symbol specification: one stock session, both tasks, and subscribe
\* messages whose symbols come with blanks and empty pieces around them
\* ------------------------------------------------------------------------
\* {"params": {"ticker": " A, ,B "}}, {"params": {"ticker": [" A", " ", "", "B "]}}
\* and {"params": {"ticker": " , "}}
PaddedMsgs ==
    {StrMsg(<<" ", "A", ",", " ", ",", "B", " ">>),
     ListMsg(<<StrElem(<<" ", "A">>), StrElem(<<" ">>), StrElem(<<>>),
               StrElem(<<"B", " ">>)>>),
     StrMsg(<<" ", ",", " ">>)}

NextPadded ==
    \E c \in SoloIds :
        \/ Accept(c, "stock")
        \/ ClientSend(c, PaddedMsgs, 1)
        \/ PeerDisconnect(c)
        \/ ConsumerStep(c)
        \/ ConsumerDisconnect(c)
        \/ ProducerLoop(c)
        \/ ProducerFetch(c)
        \/ ProducerResume(c)
        \/ HandlerResume(c)

SpecPadded == Init /\ [][NextPadded]_vars

\* ------------------------------------------------------------------------
\* Properties
\* ------------------------------------------------------------------------
Registered(c) == c \in active_connections /\ c \in DOMAIN subscribed_tickers

\* the symbols session c tracks
Tracked(c) == Range(subscribed_tickers[c])

\* this step is consumer_handler taking a message from session c's channel
Consumes(c) == inbox[c] # NoMsg /\ inbox'[c] # inbox[c]

Last(s) == s[Len(s)]

AllOk(f) == \A i \in 1..Len(f) : f[i].path = "ok"

IsPrefix(p, s) == Len(p) <= Len(s) /\ \A i \in 1..Len(p) : p[i] = s[i]

\* C1: once intake has processed a valid subscribe message, the session tracks
\* exactly the trimmed, non-empty symbols the message names, whether they came
\* as one comma-delimited string or as an array.
C1_TrackedIsSymbolsOfMessage ==
    [][\A c \in ConnIds :
          (Consumes(c) /\ ValidSubscribe(inbox[c].msg))
          => /\ c \in DOMAIN subscribed_tickers'
             /\ Range(subscribed_tickers'[c]) = SymbolsOf(inbox[c].msg)]_vars

C1_Witness ==
    \E c \in ConnIds :
        /\ handled[c].class = "valid"
        /\ Registered(c)
        /\ Tracked(c) = {SymA, SymB}

\* C2: processing the same valid subscribe message a second time in a row
\* leaves the tracked set as the first processing left it.
C2_SubscribeIdempotent ==
    [][\A c \in ConnIds :
          (Consumes(c) /\ inbox[c].seen = 1 /\ ValidSubscribe(inbox[c].msg))
          => /\ c \in DOMAIN subscribed_tickers
             /\ c \in DOMAIN subscribed_tickers'
             /\ Range(subscribed_tickers'[c]) = Range(subscribed_tickers[c])]_vars

C2_Witness ==
    \E c \in ConnIds :
        /\ handled[c].class = "valid"
        /\ handled[c].repeat
        /\ Registered(c)
        /\ Tracked(c) = expected[c]

\* C3: the tracked set is always the symbol set of the most recent valid
\* subscribe message intake has processed (empty if there was none): an update
\* replaces the entry, it never adds to it.
C3_LatestMessageWins ==
    \A c \in ConnIds : c \in DOMAIN subscribed_tickers => Tracked(c) = expected[c]

C3_Witness ==
    \E c \in ConnIds :
        /\ handled[c].class = "valid"
        /\ handled[c].dropped
        /\ Registered(c)
        /\ Tracked(c) = expected[c]

\* C4: a message whose ticker holds only empty or whitespace-only symbols
\* leaves the tracked set as it was, and intake goes on reading.
C4_BlankMessageIgnored ==
    [][\A c \in ConnIds :
          (Consumes(c) /\ MsgClass(inbox[c].msg) = "blank")
          => /\ subscribed_tickers' = subscribed_tickers
             /\ consumerPc'[c] = "recv"]_vars

C4_Witness ==
    \E c \in ConnIds :
        /\ handled[c].class = "blank"
        /\ Registered(c)
        /\ Tracked(c) # {}
        /\ consumerPc[c] = "recv"

\* C5: while a session's tracked set is empty its scheduler makes no upstream
\* call: it is not inside a poll cycle and the cycle log is empty.
C5_IdleSessionNeverFetches ==
    \A c \in ConnIds :
        (c \in DOMAIN subscribed_tickers /\ subscribed_tickers[c] = <<>>)
        => /\ fetched[c] = <<>>
           /\ pushed[c] = <<>>
           /\ producerPc[c] \in {"start", "sleep_idle", "done", "cancelled"}

C5_Witness ==
    \E c \in ConnIds :
        /\ Registered(c)
        /\ subscribed_tickers[c] = <<>>
        /\ producerPc[c] = "sleep_idle"

\* C6: in a poll cycle whose fetches all succeed with a well-formed quote, the
\* pushes are the symbols of the cycle's snapshot, each once, in the snapshot's
\* order; a completed cycle has pushed all of them.
C6_OnePushPerSymbolInOrder ==
    \A c \in ConnIds :
        AllOk(fetched[c])
        => /\ IsPrefix(pushed[c], current_tickers[c])
           /\ producerPc[c] = "sleep_cycle" => pushed[c] = current_tickers[c]

C6_Witness ==
    \E c \in ConnIds :
        /\ producerPc[c] = "sleep_cycle"
        /\ Len(fetched[c]) = 3
        /\ AllOk(fetched[c])
        /\ Len(pushed[c]) = 3

\* the poll cycle of a stock session that started after the AAPL,MSFT message
\* was processed has completed with every fetch succeeding
C7_ScenarioCycleDone(c) ==
    /\ data_type[c] = "stock"
    /\ expected[c] = {AAPL, MSFT}
    /\ cycleFresh[c]
    /\ producerPc[c] = "sleep_cycle"
    /\ AllOk(fetched[c])

\* C7 as stated: the two pushes come in the order the message listed the symbols.
C7_PushesInListedOrder ==
    \A c \in ConnIds : C7_ScenarioCycleDone(c) => pushed[c] = <<AAPL, MSFT>>

\* C7, amended: the cycle emits exactly two pushes, one for AAPL and one for
\* MSFT, in the iteration order of the tracked set.
C7_TwoPushesInSetOrder ==
    \A c \in ConnIds :
        C7_ScenarioCycleDone(c)
        => /\ Len(pushed[c]) = 2
           /\ Range(pushed[c]) = {AAPL, MSFT}
           /\ pushed[c] = subscribed_tickers[c]

C7_Witness ==
    \E c \in ConnIds : C7_ScenarioCycleDone(c) /\ pushed[c] = <<MSFT, AAPL>>

\* the cycle over a three-symbol snapshot has fetched its first symbol with
\* success and its second with the given result
SecondFetchWent(c, path) ==
    /\ Len(current_tickers[c]) = 3
    /\ Len(fetched[c]) >= 2
    /\ fetched[c][1].path = "ok"
    /\ fetched[c][2].path = path
    /\ pushed[c] # <<>>

\* C8: when the second of three symbols gets a non-200 response, nothing is
\* pushed for it, the cycle goes on to the third symbol, and a cycle whose
\* third fetch succeeds ends with pushes for the first and the third.
C8_FailedStatusSkipsOnlyThatSymbol ==
    \A c \in ConnIds :
        SecondFetchWent(c, "status")
        => /\ current_tickers[c][2] \notin Range(pushed[c])
           /\ producerPc[c] = "sleep_cycle"
              => /\ Len(fetched[c]) = 3
                 /\ fetched[c][3].path = "ok"
                    => pushed[c] = <<current_tickers[c][1], current_tickers[c][3]>>

C8_Witness ==
    \E c \in ConnIds :
        /\ SecondFetchWent(c, "status")
        /\ producerPc[c] = "sleep_cycle"
        /\ fetched[c][3].path = "ok"
        /\ Len(pushed[c]) = 2

\* C9 as stated: when the upstream call for the second of three symbols raises
\* (transport error or undecodable body), the scheduler stays in the same cycle:
\* it pauses and goes on to the third symbol (unless it is cancelled first).
C9_RaisedFetchKeepsCycle ==
    \A c \in ConnIds :
        (SecondFetchWent(c, "raised") /\ Len(fetched[c]) = 2)
        => producerPc[c] \in {"sleep_ticker", "fetch", "cancelled"}

\* C10: an exception raised by an upstream call leaves the scheduler alive and
\* the session registered: the scheduler is paused at line 1105 and can go
\* round its loop again, unless in the meantime intake ended and the scheduler
\* was cancelled, or the channel disconnected and the scheduler left its loop.
C10_UpstreamExceptionNotFatal ==
    \A c \in ConnIds :
        (fetched[c] # <<>> /\ Last(fetched[c]).path = "raised")
        => /\ Registered(c)
           /\ \/ /\ producerPc[c] = "sleep_err"
                 /\ handlerPc[c] = "wait"
                 /\ ENABLED ProducerLoop(c)
              \/ /\ producerPc[c] = "cancelled"
                 /\ consumerPc[c] = "done"
              \/ /\ producerPc[c] = "done"
                 /\ client_state[c] = "DISCONNECTED"

C10_Witness ==
    \E c \in ConnIds :
        /\ fetched[c] # <<>>
        /\ Last(fetched[c]).path = "raised"
        /\ producerPc[c] = "sleep_err"
        /\ client_state[c] = "CONNECTED"

\* the endpoint of session c has left its try statement
Finished(c) == handlerPc[c] \in {"returned", "disconnected", "failed"}

\* C11 as stated: a session that has finished after its peer disconnected is
\* registered no longer, neither in subscribed_tickers nor in
\* active_connections.  (Nothing of a finished session runs any more, so an
\* entry left at that point is left for good.)
C11_DisconnectedSessionRemoved ==
    \A c \in ConnIds :
        (client_state[c] = "DISCONNECTED" /\ Finished(c))
        => /\ c \notin active_connections
           /\ c \notin DOMAIN subscribed_tickers

\* this step removes session c from the registry and from the directory
Removes(c) ==
    /\ c \in active_connections /\ c \notin active_connections'
    /\ c \in DOMAIN subscribed_tickers /\ c \notin DOMAIN subscribed_tickers'

\* C12 as stated: the step in which a session finishes, whichever task ended
\* first, is the step that removes its registry and directory entries, and no
\* other step removes them: teardown runs exactly once per session.
C12_TeardownOnceAtFinish ==
    [][\A c \in ConnIds :
          /\ (~Finished(c) /\ Finished(c)') => Removes(c)
          /\ (c \in active_connections /\ c \notin active_connections')
             => (~Finished(c) /\ Finished(c)')
          /\ (c \in DOMAIN subscribed_tickers /\ c \notin DOMAIN subscribed_tickers')
             => (~Finished(c) /\ Finished(c)')]_vars

\* the registry entry of session c, as the tasks read it
Entry(c) == IF c \in DOMAIN subscribed_tickers THEN subscribed_tickers[c] ELSE <<>>

\* everything the two tasks of session c can change
TaskFootprint(c) ==
    <<consumerPc[c], producerPc[c], current_tickers[c], idx[c], fetched[c],
      pushed[c], Entry(c), client_state[c]>>

Stopped(pc) == pc \in {"done", "cancelled"}

\* C13: the handler's first step after either task has ended cancels the other
\* one (that step waits for nothing but the event loop), and from then on
\* neither task takes a step: no fetch, no push, no registry write.
C13_SiblingCancelledForGood ==
    [][\A c \in ConnIds :
          /\ (handlerPc[c] = "wait" /\ running = NoTask
                /\ (consumerPc[c] = "done" \/ producerPc[c] = "done"))
             => ENABLED HandlerResume(c)
          /\ (~Finished(c) /\ Finished(c)')
             => /\ consumerPc[c] = "done" \/ producerPc[c] = "done"
                /\ Stopped(consumerPc'[c]) /\ Stopped(producerPc'[c])
          /\ Finished(c)
             => /\ TaskFootprint(c)' = TaskFootprint(c)
                /\ running' # c]_vars

\* the scheduler was cancelled in the middle of a poll cycle
C13_Witness ==
    \E c \in ConnIds :
        /\ Finished(c)
        /\ consumerPc[c] = "done"
        /\ producerPc[c] = "cancelled"
        /\ Len(current_tickers[c]) = 3
        /\ Len(fetched[c]) = 1

\* intake was cancelled because the scheduler ended first
C13_IntakeCancelled ==
    \E c \in ConnIds :
        /\ Finished(c)
        /\ producerPc[c] = "done"
        /\ consumerPc[c] = "cancelled"

\* C14 as stated: once the client state is DISCONNECTED the scheduler makes no
\* further upstream call and starts no new poll cycle: the pause it is in is
\* its last.
C14_NoFetchOnceDisconnected ==
    [][\A c \in ConnIds :
          client_state[c] = "DISCONNECTED"
          => /\ fetched'[c] = fetched[c]
             /\ current_tickers'[c] = current_tickers[c]
             /\ producerPc'[c] # "fetch"]_vars

\* the malformed messages C15 lists: the message is not an object, params is
\* not an object, or the ticker array has an entry that is not a string
ListedMalformed(m) ==
    \/ m.kind \in {"nonobject", "badparams"}
    \/ m.kind = "list" /\ ~WellFormed(m)

\* C15 as stated: intake drops a malformed message: the tracked sets stay as
\* they are and intake is back at reading the channel, so that a later
\* subscribe message is processed.
C15_MalformedDroppedIntakeGoesOn ==
    [][\A c \in ConnIds :
          (Consumes(c) /\ ListedMalformed(inbox[c].msg))
          => /\ subscribed_tickers' = subscribed_tickers
             /\ consumerPc'[c] = "recv"]_vars

\* C16 as stated: when send_json has raised an exception other than a
\* disconnect inside the scheduler, the exception is not handled there: the
\* scheduler has ended, and the session ends through the endpoint's
\* `except Exception` branch: close(code=1011), then the error is raised to the
\* host.
C16_FatalErrorCloses1011 ==
    \A c \in ConnIds :
        (fetched[c] # <<>> /\ Last(fetched[c]).path = "error")
        => /\ Stopped(producerPc[c])
           /\ Finished(c) => handlerPc[c] = "failed"

\* C17: a poll cycle works on one copy of the registry entry.  The copy is
\* made only at a cycle's start and is the entry's value at that moment; the
\* calls of the cycle go through the copy in its order; and a message intake
\* processes during the cycle changes neither the copy nor the calls made.
C17_CycleUsesOneSnapshot ==
    [][\A c \in ConnIds :
          /\ current_tickers'[c] # current_tickers[c]
             => /\ current_tickers'[c] = Entry(c)
                /\ fetched'[c] = <<>>
          /\ Consumes(c)
             => /\ current_tickers'[c] = current_tickers[c]
                /\ fetched'[c] = fetched[c]
                /\ idx'[c] = idx[c]
          /\ Len(fetched'[c]) <= Len(current_tickers'[c])
          /\ \A i \in 1..Len(fetched'[c]) :
                fetched'[c][i].ticker = current_tickers'[c][i]]_vars

\* a cycle over A, B, C has made all three calls although intake replaced the
\* tracked set by {AAPL, MSFT} while it was in progress
C17_Witness ==
    \E c \in ConnIds :
        /\ Range(current_tickers[c]) = {SymA, SymB, SymC}
        /\ Registered(c)
        /\ Tracked(c) = {AAPL, MSFT}
        /\ handled[c].class = "valid"
        /\ Len(fetched[c]) = 3
        /\ {fetched[c][i].ticker : i \in 1..3} = {SymA, SymB, SymC}

\* the symbols of the upstream calls in a cycle log
Called(f) == {f[i].ticker : i \in 1..Len(f)}

\* C18: a poll cycle that started after intake's latest registry write works
\* on the symbols of the latest valid subscribe message and on nothing else:
\* its snapshot is that set, and it calls upstream and pushes only for symbols
\* of that set.  Symbols of an earlier set can appear only in the cycle that
\* was in progress at the write.
C18_NextCycleUsesNewSet ==
    \A c \in ConnIds :
        cycleFresh[c]
        => /\ Range(current_tickers[c]) = expected[c]
           /\ Called(fetched[c]) \subseteq expected[c]
           /\ Range(pushed[c]) \subseteq expected[c]

\* the cycle started after a re-subscribe that dropped symbols of the old set,
\* and has pushed for both symbols of the new one
C18_Witness ==
    \E c \in ConnIds :
        /\ cycleFresh[c]
        /\ handled[c].class = "valid"
        /\ handled[c].dropped
        /\ expected[c] = {AAPL, MSFT}
        /\ Range(pushed[c]) = {AAPL, MSFT}

\* C19 as stated: every upstream call is followed by a pause: the step that
\* makes a call leaves the scheduler suspended (in a sleep, or ended), so the
\* next call of the session cannot follow without a pause in between.
C19_PauseAfterEveryFetch ==
    [][\A c \in ConnIds :
          Len(fetched'[c]) > Len(fetched[c])
          => /\ running' # c
             /\ producerPc'[c] # "fetch"]_vars

\* the symbols of the calls of a cycle log that reached send_json and were sent
RECURSIVE SentOf(_)
SentOf(f) ==
    IF f = <<>> THEN <<>>
    ELSE IF Head(f).path = "ok" THEN <<Head(f).ticker>> \o SentOf(Tail(f))
    ELSE SentOf(Tail(f))

\* C20: a 200 response whose quote is empty or has no price yields no push for
\* its symbol and does not end the cycle: the scheduler goes on to the next
\* symbol of the snapshot, and the pushes of the cycle are exactly those of the
\* symbols whose quote was well-formed and sent.
C20_BadQuoteSkipsOnlyThatSymbol ==
    \A c \in ConnIds :
        (\E i \in 1..Len(fetched[c]) : fetched[c][i].path = "skipped")
        => /\ \A i \in 1..Len(fetched[c]) :
                 fetched[c][i].path = "skipped"
                 => fetched[c][i].ticker \notin Range(pushed[c])
           /\ pushed[c] = SentOf(fetched[c])
           /\ (Last(fetched[c]).path = "skipped"
                 /\ Len(fetched[c]) < Len(current_tickers[c]))
              => /\ producerPc[c] = "fetch"
                 /\ idx[c] = Len(fetched[c]) + 1

\* the second of three symbols came back without a usable quote; the first
\* and the third were pushed
C20_Witness ==
    \E c \in ConnIds :
        /\ SecondFetchWent(c, "skipped")
        /\ producerPc[c] = "sleep_cycle"
        /\ Len(fetched[c]) = 3
        /\ fetched[c][3].path = "ok"
        /\ pushed[c] = <<current_tickers[c][1], current_tickers[c][3]>>

\* C21: a symbol whose upstream call failed (non-200 status, transport error
\* or undecodable body) has no push in that cycle, and every push of a cycle
\* is for a symbol whose call in that cycle succeeded and was sent: nothing
\* else, no error row, goes out on the channel.
C21_FailedSymbolNeverPushed ==
    \A c \in ConnIds :
        /\ \A i \in 1..Len(fetched[c]) :
              fetched[c][i].path \in {"status", "raised"}
              => fetched[c][i].ticker \notin Range(pushed[c])
        /\ \A j \in 1..Len(pushed[c]) :
              \E i \in 1..Len(fetched[c]) :
                 fetched[c][i].ticker = pushed[c][j] /\ fetched[c][i].path = "ok"

\* the cycle is complete, the call for the second of three symbols got a
\* non-200 status, the other two were pushed
C21_Witness ==
    \E c \in ConnIds :
        /\ Len(fetched[c]) = 3
        /\ fetched[c][2].path = "status"
        /\ producerPc[c] = "sleep_cycle"
        /\ Len(pushed[c]) = 2
        /\ fetched[c][2].ticker \notin Range(pushed[c])

\* the registry and directory entries of session d are the same after the step
EntriesKept(d) ==
    /\ (d \in active_connections') = (d \in active_connections)
    /\ (d \in DOMAIN subscribed_tickers') = (d \in DOMAIN subscribed_tickers)
    /\ Entry(d)' = Entry(d)

\* C22: sessions are isolated.  A step in which intake of session c processes
\* a message leaves the registry and directory entries of every other session
\* as they were (and c's directory entry too); a step in which c's scheduler
\* pushes adds to c's channel alone, and the symbol pushed is one of c's own
\* snapshot, which is c's own tracked set while no write has followed it.
C22_SessionsIsolated ==
    [][\A c \in ConnIds :
          /\ Consumes(c)
             => /\ active_connections' = active_connections
                /\ \A d \in ConnIds \ {c} : EntriesKept(d)
          /\ Len(pushed'[c]) > Len(pushed[c])
             => /\ \A d \in ConnIds \ {c} : pushed'[d] = pushed[d]
                /\ Last(pushed'[c]) \in Range(current_tickers[c])
                /\ cycleFresh[c] => Last(pushed'[c]) \in Range(Entry(c))]_vars

\* two open sessions track different symbols and each has been pushed its own
C22_Witness ==
    /\ \A c \in ConnIds : Registered(c) /\ handlerPc[c] = "wait"
    /\ \E c, d \in ConnIds :
          /\ Tracked(c) = {SymA} /\ pushed[c] = <<SymA>>
          /\ Tracked(d) = {SymB} /\ pushed[d] = <<SymB>>

\* C23: the step in which one session finishes and cancels its pending task
\* touches no other session: the other sessions' tasks and handlers are where
\* they were, with the same cycle state, and their registry and directory
\* entries are unchanged.
C23_CancellationSessionScoped ==
    [][\A c \in ConnIds :
          (~Finished(c) /\ Finished(c)')
          => \A d \in ConnIds \ {c} :
                /\ TaskFootprint(d)' = TaskFootprint(d)
                /\ handlerPc'[d] = handlerPc[d]
                /\ EntriesKept(d)]_vars

\* one session has finished with its scheduler cancelled while the other is
\* open, its intake reading and its scheduler pausing inside a poll cycle
C23_Witness ==
    \E c, d \in ConnIds :
        /\ Finished(c) /\ producerPc[c] = "cancelled"
        /\ handlerPc[d] = "wait"
        /\ consumerPc[d] = "recv"
        /\ producerPc[d] = "sleep_ticker"
        /\ Registered(d)
        /\ pushed[d] # <<>>

\* C24: the step that starts the two tasks of a connection leaves its id in
\* active_connections and in subscribed_tickers with an empty tracked set, both
\* tasks at their beginning; and the first step either task takes finds the
\* id registered.
C24_RegisteredBeforeTasksRun ==
    [][\A c \in ConnIds :
          /\ (consumerPc[c] = "none" /\ producerPc[c] = "none"
                /\ (consumerPc'[c] # "none" \/ producerPc'[c] # "none"))
             => /\ c \in active_connections'
                /\ c \in DOMAIN subscribed_tickers'
                /\ subscribed_tickers'[c] = <<>>
                /\ consumerPc'[c] = "recv"
                /\ producerPc'[c] = "start"
          /\ ((producerPc[c] = "start" /\ producerPc'[c] # "start")
                \/ (consumerPc[c] = "recv" /\ Consumes(c)))
             => Registered(c)]_vars

\* a crypto connection has just been opened: both tasks are created, neither
\* has run
C24_Witness ==
    \E c \in ConnIds :
        /\ data_type[c] = "crypto"
        /\ consumerPc[c] = "recv"
        /\ producerPc[c] = "start"
        /\ handlerPc[c] = "wait"
        /\ Registered(c)
        /\ subscribed_tickers[c] = <<>>
        /\ inbox[c] = NoMsg

\* The case of C25, a scheduler that begins a cycle with its entry missing from
\* subscribed_tickers, does not occur: the entry is written before the tasks
\* are created and no statement that runs deletes it.  The KeyError branch of
\* ProducerLoop (line 1056 raising into line 1103) is therefore never taken.
EntryNeverAbsent ==
    \A c \in ConnIds :
        /\ producerPc[c] # "none" => c \in DOMAIN subscribed_tickers
        /\ ~(producerPc[c] = "sleep_err" /\ fetched[c] = <<>>)

\* a task of session c has observed the peer's disconnect: intake has read it
\* from the channel, or send_json has raised WebSocketDisconnect
SawDisconnect(c) ==
    \/ client_state[c] = "DISCONNECTED"
    \/ fetched[c] # <<>> /\ Last(fetched[c]).path = "disconnect"

\* C26: once a task has observed the peer's disconnect, the session ends
\* cleanly: the handler's next step is due and stops both tasks, and the
\* endpoint leaves by the normal end of its try body, never through
\* `except Exception` with close(code=1011) and a raise.
C26_DisconnectEndsCleanly ==
    \A c \in ConnIds :
        SawDisconnect(c)
        => /\ handlerPc[c] # "failed"
           /\ (handlerPc[c] = "wait" /\ running = NoTask) => ENABLED HandlerResume(c)
           /\ Finished(c)
              => /\ handlerPc[c] = "returned"
                 /\ Stopped(consumerPc[c])
                 /\ Stopped(producerPc[c])

\* intake read the disconnect while the scheduler was inside a poll cycle; the
\* session is over
C26_Witness ==
    \E c \in ConnIds :
        /\ client_state[c] = "DISCONNECTED"
        /\ handlerPc[c] = "returned"
        /\ consumerPc[c] = "done"
        /\ producerPc[c] = "cancelled"
        /\ pushed[c] # <<>>

\* the scheduler's send met the disconnect before intake read it; the session
\* is over
C26_SchedulerSawDisconnect ==
    \E c \in ConnIds :
        /\ fetched[c] # <<>> /\ Last(fetched[c]).path = "disconnect"
        /\ handlerPc[c] = "returned"
        /\ producerPc[c] = "done"
        /\ consumerPc[c] = "cancelled"

\* C27: every upstream call of a session opened on /crypto_ws goes to
\* crypto/prices/snapshot and every call of a session opened on /stock_ws goes
\* to prices/snapshot.
C27_EndpointMatchesRoute ==
    \A c \in ConnIds :
        \A i \in 1..Len(fetched[c]) :
            /\ ws_path[c] = "/crypto_ws" => fetched[c][i].endpoint = "crypto/prices/snapshot"
            /\ ws_path[c] = "/stock_ws" => fetched[c][i].endpoint = "prices/snapshot"

\* a session opened on /crypto_ws has made two upstream calls
C27_Witness ==
    \E c \in ConnIds :
        /\ ws_path[c] = "/crypto_ws"
        /\ Len(fetched[c]) = 2
        /\ fetched[c][2].endpoint = "crypto/prices/snapshot"

\* a session opened on /stock_ws has made two upstream calls
C27_StockCalls ==
    \E c \in ConnIds :
        /\ ws_path[c] = "/stock_ws"
        /\ Len(fetched[c]) = 2
        /\ fetched[c][2].endpoint = "prices/snapshot"

\* this step accepts a connection under id c
Accepts(c) == producerPc[c] # "start" /\ producerPc'[c] = "start"

\* C28: a connection is never accepted under an id that is in
\* active_connections or in subscribed_tickers, and the accept leaves every
\* other session's directory entry, registry entry and tasks as they were.
C28_AcceptUsesUnusedId ==
    [][\A c \in ConnIds :
          Accepts(c)
          => /\ c \notin active_connections
             /\ c \notin DOMAIN subscribed_tickers
             /\ \A d \in ConnIds \ {c} :
                   /\ EntriesKept(d)
                   /\ TaskFootprint(d)' = TaskFootprint(d)]_vars

\* a second connection has just been accepted while the first one, which
\* tracks a symbol, is still registered
C28_Witness ==
    \E c, d \in ConnIds :
        /\ c # d
        /\ Registered(c)
        /\ Tracked(c) # {}
        /\ Registered(d)
        /\ producerPc[d] = "start"
        /\ consumerPc[d] = "recv"
        /\ subscribed_tickers[d] = <<>>

\* the poll cycle of session c is over (completed or abandoned) and the
\* session is still connected
CycleOverConnected(c) ==
    /\ producerPc[c] \in {"sleep_cycle", "sleep_err"}
    /\ client_state[c] = "CONNECTED"
    /\ ~peerGone[c]

\* C29 as stated: every poll cycle of a connected session reaches and pushes
\* each symbol of its snapshot that the upstream answers with a well-formed
\* quote, however the calls for the other symbols of the cycle went.
C29_HealthySymbolPushedEveryCycle ==
    \A c \in ConnIds :
        CycleOverConnected(c)
        => \A i \in 1..Len(current_tickers[c]) :
              (\A k \in 1..Len(fetched[c]) :
                  fetched[c][k].ticker = current_tickers[c][i] => fetched[c][k].path = "ok")
              => current_tickers[c][i] \in Range(pushed[c])

\* C30: a push is made in the very iteration that called the upstream for its
\* symbol and got status 200 with a non-empty quote that has a price: the
\* step that pushes adds one call with that result for that symbol to the
\* cycle log and one push.  The pushes of a cycle are exactly its calls that
\* succeeded and were sent, and a new cycle starts with none.
C30_PushIsFreshQuote ==
    [][\A c \in ConnIds :
          /\ Len(pushed'[c]) > Len(pushed[c])
             => /\ pushed'[c] = Append(pushed[c], CycleTicker(c))
                /\ Len(fetched'[c]) = Len(fetched[c]) + 1
                /\ Last(fetched'[c]).ticker = Last(pushed'[c])
                /\ Last(fetched'[c]).path = "ok"
          /\ pushed'[c] = SentOf(fetched'[c])
          /\ Len(fetched'[c]) < Len(fetched[c]) => pushed'[c] = <<>>]_vars

\* the first call of the cycle came back without a usable quote, the second
\* succeeded: the one push of the cycle is the second call's quote
C30_Witness ==
    \E c \in ConnIds :
        /\ Len(fetched[c]) = 2
        /\ fetched[c][1].path = "skipped"
        /\ fetched[c][2].path = "ok"
        /\ pushed[c] = <<fetched[c][2].ticker>>

\* C31: within one poll cycle no symbol is called twice, whatever its call
\* gave: the calls of the cycle log are for pairwise different symbols and are
\* no more than the snapshot has.
C31_NoRetryWithinCycle ==
    \A c \in ConnIds :
        /\ Len(fetched[c]) <= Len(current_tickers[c])
        /\ \A i, j \in 1..Len(fetched[c]) :
              i # j => fetched[c][i].ticker # fetched[c][j].ticker

\* a complete cycle over three symbols whose first call failed with a non-200
\* status: three calls, one per symbol
C31_Witness ==
    \E c \in ConnIds :
        /\ producerPc[c] = "sleep_cycle"
        /\ Len(fetched[c]) = 3
        /\ fetched[c][1].path = "status"
        /\ Cardinality(Called(fetched[c])) = 3

\* C32: once intake has terminated, on a disconnect or on an exception raised
\* while a message is read or processed, the session comes to its end under
\* fair scheduling: the handler returns and the scheduler is stopped too.
C32_IntakeEndEndsSession ==
    \A c \in ConnIds :
        (consumerPc[c] = "done")
        ~> (Finished(c) /\ Stopped(consumerPc[c]) /\ Stopped(producerPc[c]))

\* intake ended on a message that raised, on a channel still connected, and
\* the session is over with the scheduler cancelled inside a poll cycle
C32_Witness ==
    \E c \in ConnIds :
        /\ handled[c].class = "malformed"
        /\ client_state[c] = "CONNECTED"
        /\ consumerPc[c] = "done"
        /\ Finished(c)
        /\ producerPc[c] = "cancelled"
        /\ fetched[c] # <<>>

\* C33 as stated: the upstream call is a suspension point: while the scheduler
\* of a session is in the stretch that makes the call, intake of the session
\* can take a step on a message that is waiting on the channel.
C33_IntakeRunsDuringUpstreamCall ==
    \A c \in ConnIds :
        (producerPc[c] = "fetch" /\ consumerPc[c] = "recv" /\ inbox[c] # NoMsg)
        => ENABLED ConsumerStep(c)

\* C34: a message without a ticker, with an empty ticker ("", [], null) or with
\* a ticker that is neither a string nor an array leaves the tracked set as it
\* was, and intake goes on reading.
C34_EmptyTickerIgnored ==
    [][\A c \in ConnIds :
          (Consumes(c) /\ consumerPc[c] = "recv" /\ MsgClass(inbox[c].msg) = "empty")
          => /\ subscribed_tickers' = subscribed_tickers
             /\ consumerPc'[c] = "recv"]_vars

C34_Witness ==
    \E c \in ConnIds :
        /\ handled[c].class = "empty"
        /\ Registered(c)
        /\ Tracked(c) # {}
        /\ Tracked(c) = expected[c]
        /\ consumerPc[c] = "recv"
        /\ client_state[c] = "CONNECTED"

\* the scheduler holds the event loop only inside a poll cycle: every loop head
\* is reached through one of the pauses
OuterLoopYields ==
    \A c \in ConnIds : running = c => producerPc[c] = "fetch"

\* a subscribe message waiting on a connected session can still be read
ArrivedSubscribeServed ==
    \A c \in ConnIds :
        (/\ inbox[c] # NoMsg
         /\ MsgClass(inbox[c].msg) = "valid"
         /\ client_state[c] = "CONNECTED"
         /\ ~peerGone[c])
        => consumerPc[c] = "recv"

\* C35 as stated: the scheduler yields in every iteration of its outer loop,
\* and a subscribe message that has arrived on a connected session is
\* processed by intake: intake is there to read it.
C35_SchedulerYieldsIntakeServes == OuterLoopYields /\ ArrivedSubscribeServed

\* C36: a tracked set that is non-empty stays non-empty: no message of the
\* client, and no other step of the session, empties it.
C36_NeverEmptyAgain ==
    [][\A c \in ConnIds : Entry(c) # <<>> => Entry(c)' # <<>>]_vars

C36_Witness ==
    \E c \in ConnIds :
        /\ Registered(c)
        /\ Tracked(c) # {}
        /\ handled[c].class \in {"blank", "empty", "malformed"}
        /\ handled[c].repeat
        /\ inbox[c] = NoMsg

\* the rules of a session of the stock endpoint: an empty snapshot leads to no
\* call and to no cycle; an empty or price-less quote is not pushed and is
\* followed by no pause; the per-symbol pause follows a push or a non-200
\* status only
StockRules(c) ==
    /\ current_tickers[c] = <<>>
          => /\ fetched[c] = <<>>
             /\ producerPc[c] \notin {"fetch", "sleep_ticker", "sleep_cycle"}
    /\ \A i \in 1..Len(fetched[c]) :
          fetched[c][i].path = "skipped" => fetched[c][i].ticker \notin Range(pushed[c])
    /\ producerPc[c] = "sleep_ticker"
          => fetched[c] # <<>> /\ Last(fetched[c]).path \in {"ok", "status"}
    /\ Range(pushed[c]) = Range(SentOf(fetched[c]))

\* C37: a session opened on /crypto_ws follows the rules of a session opened
\* on /stock_ws (idle check, snapshot and price checks, pauses); the two differ
\* in the upstream path of their calls only.
C37_CryptoRunsStockMachine ==
    \A c \in ConnIds :
        /\ ws_path[c] \in {"/crypto_ws", "/stock_ws"} => StockRules(c)
        /\ \A i \in 1..Len(fetched[c]) :
              fetched[c][i].endpoint =
                 IF ws_path[c] = "/crypto_ws" THEN "crypto/prices/snapshot"
                 ELSE "prices/snapshot"

\* a crypto session in a cycle over three symbols: a quote pushed, then two
\* quotes skipped with no pause in between
C37_Witness ==
    \E c \in ConnIds :
        /\ ws_path[c] = "/crypto_ws"
        /\ Len(fetched[c]) = 3
        /\ fetched[c][1].path = "ok"
        /\ fetched[c][2].path = "skipped"
        /\ fetched[c][3].path = "skipped"
        /\ Len(pushed[c]) = 1
        /\ producerPc[c] = "sleep_cycle"

\* C38: the directory and the registry have the same keys in every state.
C38_SameKeys == active_connections = DOMAIN subscribed_tickers

\* two sessions in both dictionaries: one has ended, the other is running and
\* tracks a symbol
C38_Witness ==
    \E c, d \in ConnIds :
        /\ c # d
        /\ {c, d} \subseteq active_connections
        /\ handlerPc[c] = "returned"
        /\ handlerPc[d] = "wait"
        /\ subscribed_tickers[d] # <<>>

\* a symbol with at least one character and no blank at either end
CleanSymbol(s) == s # <<>> /\ ~IsSpace(Head(s)) /\ ~IsSpace(Last(s))

\* C39: every symbol of every tracked set is non-empty and has no leading or
\* trailing whitespace, and so is every symbol an upstream call is made for.
C39_SymbolsClean ==
    \A c \in ConnIds :
        /\ c \in DOMAIN subscribed_tickers
              => \A i \in 1..Len(subscribed_tickers[c]) :
                    CleanSymbol(subscribed_tickers[c][i])
        /\ \A i \in 1..Len(fetched[c]) : CleanSymbol(fetched[c][i].ticker)

\* after a subscribe message with padded symbols the session tracks A and B
\* and has called upstream for both
C39_Witness ==
    \E c \in ConnIds :
        /\ Registered(c)
        /\ handled[c].class = "valid"
        /\ Tracked(c) = {SymA, SymB}
        /\ Called(fetched[c]) = {SymA, SymB}

====
